---- MODULE Spec2Model ----
(***************************************************************************)
(* Model of scripts/rebuild_catalog.py: the path classifier                *)
(* (_extract_path_components), the two scan passes of rebuild_catalog, the *)
(* assembly of the catalog document and the standalone write of            *)
(* data/catalog.json.                                                      *)
(*                                                                         *)
(* Python strings are sequences of one-character strings, so that          *)
(* str.replace, str.split, re.match, Path.stem, str.title and the string   *)
(* ordering used by sorted() are computed character by character.          *)
(***************************************************************************)
EXTENDS Naturals, Sequences, FiniteSets, TLC

VARIABLES
    data_dir,      \* the data root handed to rebuild_catalog (sequence of segments)
    entry_point,   \* "main": the __main__ block; "lib": a direct call of rebuild_catalog
    fs,            \* the files under the data root (the unchanged inputs)
    pc,            \* position of the running invocation
    run,           \* number of the running invocation (also its generated_at clock)
    meta_iter,     \* sidecars data_dir.rglob("*.meta.json") has still to yield
    csv_iter,      \* CSVs data_dir.rglob("*.csv") has still to yield
    datasets,      \* the local list datasets of rebuild_catalog
    catalog,       \* the document rebuild_catalog returned (NoCatalog before / on failure)
    out,           \* the file data/catalog.json
    stderr,        \* sidecars a "Warning: Skipping" line was printed for
    exit_status,   \* termination status of the invocation: <<>> while none, <<0>>, <<1>>
    prev_catalog,  \* history: the document the previous invocation returned
    prev_out,      \* history: data/catalog.json as the running invocation found it
    arg,           \* the csv_path handed to a direct call of _extract_path_components
    ret            \* what that call returned

vars == <<data_dir, entry_point, fs, pc, run, meta_iter, csv_iter, datasets,
          catalog, out, stderr, exit_status, prev_catalog, prev_out, arg, ret>>

-----------------------------------------------------------------------------
(* Bounds of the model.                                                    *)

\* files under the data root
MaxFiles == 3
\* sidecars among them
MaxSidecars == 2
\* invocations in a row over the same inputs
MaxRuns == 2
\* segments of a path handed directly to _extract_path_components
MaxSegments == 3

-----------------------------------------------------------------------------
(* Python values.                                                          *)

\* Python's None where a str is expected (no one-character string is "None").
None == <<"None">>

Range(f) == {f[i] : i \in DOMAIN f}

Digits == <<"0", "1", "2", "3", "4", "5", "6", "7", "8", "9">>
Lowercase == <<"a", "b", "c", "d", "e", "f", "g", "h", "i", "j", "k", "l", "m",
               "n", "o", "p", "q", "r", "s", "t", "u", "v", "w", "x", "y", "z">>
Uppercase == <<"A", "B", "C", "D", "E", "F", "G", "H", "I", "J", "K", "L", "M",
               "N", "O", "P", "Q", "R", "S", "T", "U", "V", "W", "X", "Y", "Z">>

IndexOf(c, seq) == CHOOSE i \in DOMAIN seq : seq[i] = c

\* The code point of a character: what Python's str comparison orders by.
Ord(c) ==
    CASE c = "\n" -> 10
      [] c = " " -> 32
      [] c = "-" -> 45
      [] c = "." -> 46
      [] c = "/" -> 47
      [] c \in Range(Digits) -> 47 + IndexOf(c, Digits)
      [] c \in Range(Uppercase) -> 64 + IndexOf(c, Uppercase)
      [] c = "_" -> 95
      [] c \in Range(Lowercase) -> 96 + IndexOf(c, Lowercase)

\* a < b on Python strings: lexicographic by code point, a proper prefix first.
RECURSIVE StrLess(_, _)
StrLess(a, b) ==
    IF b = <<>> THEN FALSE
    ELSE IF a = <<>> THEN TRUE
    ELSE IF Head(a) = Head(b) THEN StrLess(Tail(a), Tail(b))
    ELSE Ord(Head(a)) < Ord(Head(b))

StartsWith(s, prefix) ==
    /\ Len(prefix) <= Len(s)
    /\ SubSeq(s, 1, Len(prefix)) = prefix

EndsWith(s, suffix) ==
    /\ Len(suffix) <= Len(s)
    /\ SubSeq(s, Len(s) - Len(suffix) + 1, Len(s)) = suffix

\* s.replace(old, new): every non-overlapping occurrence, left to right.
RECURSIVE Replace(_, _, _)
Replace(s, old, new) ==
    IF Len(s) < Len(old) THEN s
    ELSE IF StartsWith(s, old)
         THEN new \o Replace(SubSeq(s, Len(old) + 1, Len(s)), old, new)
         ELSE <<Head(s)>> \o Replace(Tail(s), old, new)

\* s.split("/")
RECURSIVE Split(_)
Split(s) ==
    IF \E i \in 1..Len(s) : s[i] = "/"
    THEN LET i == CHOOSE k \in 1..Len(s) :
                      s[k] = "/" /\ \A j \in 1..(k - 1) : s[j] # "/"
         IN <<SubSeq(s, 1, i - 1)>> \o Split(SubSeq(s, i + 1, Len(s)))
    ELSE <<s>>

\* "/".join(parts)
RECURSIVE Join(_)
Join(parts) ==
    IF parts = <<>> THEN <<>>
    ELSE IF Len(parts) = 1 THEN parts[1]
    ELSE parts[1] \o <<"/">> \o Join(Tail(parts))

IsCased(c) == c \in Range(Lowercase) \cup Range(Uppercase)

ToUpper(c) == IF c \in Range(Lowercase) THEN Uppercase[IndexOf(c, Lowercase)] ELSE c

ToLower(c) == IF c \in Range(Uppercase) THEN Lowercase[IndexOf(c, Uppercase)] ELSE c

\* s.title(): a cased character is upper-cased after an uncased one (or at
\* the start) and lower-cased after a cased one.
RECURSIVE TitleFrom(_, _)
TitleFrom(s, prev_cased) ==
    IF s = <<>> THEN <<>>
    ELSE LET c == Head(s)
         IN <<IF prev_cased THEN ToLower(c) ELSE ToUpper(c)>>
                \o TitleFrom(Tail(s), IsCased(c))

Title(s) == TitleFrom(s, FALSE)

-----------------------------------------------------------------------------
(* Path Classifier.                                                        *)

IsDigit(c) == c \in Range(Digits)

\* re.match(r"^\d{4}-\d{2}$", part): "$" matches at the end of the string and
\* also just before a newline that ends the string.  (\d also takes the
\* decimal digits outside ASCII; the strings of this model are ASCII.)
ReMatchYearMonth(part) ==
    /\ Len(part) \in {7, 8}
    /\ \A i \in {1, 2, 3, 4, 6, 7} : IsDigit(part[i])
    /\ part[5] = "-"
    /\ Len(part) = 8 => part[8] = "\n"

_to_posix_path(segments) == Join(segments)

_extract_path_components(csv_path) ==
    LET parts == Split(csv_path)
        filename == parts[Len(parts)]
        year_month ==
            IF \E i \in 1..Len(parts) : ReMatchYearMonth(parts[i])
            THEN parts[CHOOSE i \in 1..Len(parts) :
                           /\ ReMatchYearMonth(parts[i])
                           /\ \A j \in 1..(i - 1) : ~ReMatchYearMonth(parts[j])]
            ELSE None
        thematic_name ==
            IF Len(parts) >= 2
            THEN LET parent == parts[Len(parts) - 1]
                 IN IF ~ReMatchYearMonth(parent) /\ parent # <<"d", "a", "t", "a">>
                    THEN parent
                    ELSE None
            ELSE None
    IN <<thematic_name, year_month, filename>>

-----------------------------------------------------------------------------
(* JSON values, as json.load returns them: every value has the same shape, *)
(* t names its Python type.                                                *)

JNull == [t |-> "null", s |-> <<>>, d |-> <<>>, l |-> <<>>]
JStr(str) == [t |-> "str", s |-> str, d |-> <<>>, l |-> <<>>]
JDict(items) == [t |-> "dict", s |-> <<>>, d |-> items, l |-> <<>>]
JList(elems) == [t |-> "list", s |-> <<>>, d |-> <<>>, l |-> elems]

\* dict.get(key, default)
Get(dict, key, default) == IF key \in DOMAIN dict.d THEN dict.d[key] ELSE default

\* dict[key] = value on a copy of dict
SetItem(dict, key, value) ==
    JDict([k \in DOMAIN dict.d \cup {key} |-> IF k = key THEN value ELSE dict.d[k]])

\* A lone surrogate code point, which json.load builds from the escape \ud800
\* and which no UTF-8 encoder accepts.
SURROGATE == "U+D800"

\* What writing a JSON value to the UTF-8 output file does: it raises
\* UnicodeEncodeError on a string holding a surrogate.
RECURSIVE Encodable(_)
Encodable(v) ==
    CASE v.t = "str" -> SURROGATE \notin Range(v.s)
      [] v.t = "dict" -> \A k \in DOMAIN v.d : Encodable(v.d[k])
      [] v.t = "list" -> \A i \in DOMAIN v.l : Encodable(v.l[i])
      [] OTHER -> TRUE

-----------------------------------------------------------------------------
(* The directory tree.                                                     *)

CSV_SUFFIX == <<".", "c", "s", "v">>
META_SUFFIX == <<".", "m", "e", "t", "a", ".", "j", "s", "o", "n">>
DATA == <<"d", "a", "t", "a">>
CATALOG_JSON == <<"c", "a", "t", "a", "l", "o", "g", ".", "j", "s", "o", "n">>

\* The default data root, Path("data"), and the parent of the output path.
DefaultDataDir == <<DATA>>

\* A file: the directory it is in (segments below the data root), its name
\* and what reading it gives.  kind is "csv" for a data file; for a sidecar
\* it is "json" (json.load returns value), "badjson" (JSONDecodeError),
\* "oserror" (open or read raises OSError) or "undecodable" (the bytes are
\* not UTF-8 text: UnicodeDecodeError, a ValueError).
File(dir, name, kind, value) == [dir |-> dir, name |-> name, kind |-> kind, value |-> value]

\* data/catalog.json: absent, or the text json.dump has written to it.  The
\* text is the envelope's scalar keys (head), the entries written in full
\* (body) and whether the closing brackets were written (closed).
NoHead == [schema_version |-> "", generated_at |-> 0, total_datasets |-> 0]
NoFile == [exists |-> FALSE, head |-> NoHead, body |-> <<>>, closed |-> FALSE]

NoCatalog == [schema_version |-> "", generated_at |-> 0, total_datasets |-> 0,
              datasets |-> <<>>]

\* Every file below root at this moment: the inputs and, once written, the
\* output file, which lies below the root when the root is "data".
FilesUnder(root, inputs, output) ==
    inputs \cup
    (IF output.exists /\ root = DefaultDataDir
     THEN {File(<<>>, CATALOG_JSON, "json", JNull)}
     ELSE {})

\* root.rglob("*" + suffix): the files whose name ends with the suffix.
RGlob(root, inputs, output, suffix) ==
    {f \in FilesUnder(root, inputs, output) : EndsWith(f.name, suffix)}

\* Path.exists() of the sibling of f called name
SiblingExists(root, inputs, output, f, name) ==
    \E g \in FilesUnder(root, inputs, output) : g.dir = f.dir /\ g.name = name

IsProperPrefix(a, b) == Len(a) < Len(b) /\ SubSeq(b, 1, Len(a)) = a

\* rglob walks top-down: a directory's own matches before those of the
\* directories below it; within a directory the order is the filesystem's.
CanYield(iter, f) == f \in iter /\ ~\E g \in iter : IsProperPrefix(g.dir, f.dir)

\* Path.stem: the name without its last suffix
Stem(name) ==
    LET dots == {i \in 1..Len(name) : name[i] = "."}
        last == CHOOSE i \in dots : \A j \in dots : j <= i
    IN IF dots # {} /\ last > 1 /\ last < Len(name)
       THEN SubSeq(name, 1, last - 1)
       ELSE name

\* csv_file.stem.replace("-", " ").replace("_", " ").title()
HumanTitle(csv_name) ==
    Title(Replace(Replace(Stem(csv_name), <<"-">>, <<" ">>), <<"_">>, <<" ">>))

-----------------------------------------------------------------------------
(* Entry Builder.                                                          *)

UnknownSource == JDict([k \in {"name", "url"} |->
                           IF k = "name" THEN JStr(<<"U", "n", "k", "n", "o", "w", "n">>)
                           ELSE JNull])

CsvImportType == JStr(<<"c", "s", "v">>)

UnknownLicense == JStr(<<"U", "n", "k", "n", "o", "w", "n">>)

\* foo.meta.json -> foo.csv
CsvNameOf(meta_name) == Replace(meta_name, META_SUFFIX, CSV_SUFFIX)

\* foo.csv -> foo.meta.json
MetaNameOf(csv_name) == Replace(csv_name, CSV_SUFFIX, META_SUFFIX)

PosixPath(root, dir, name) == _to_posix_path(root \o dir \o <<name>>)

\* source of a metadata-bearing entry
SourceOf(meta) ==
    LET raw_source == Get(meta, "source", UnknownSource)
        source == IF raw_source.t = "dict" THEN raw_source ELSE UnknownSource
    IN IF "import_type" \notin DOMAIN source.d
       THEN SetItem(source, "import_type", CsvImportType)
       ELSE source

MetadataEntry(root, meta_file, meta) ==
    LET csv_name == CsvNameOf(meta_file.name)
        csv_path == PosixPath(root, meta_file.dir, csv_name)
        comps == _extract_path_components(csv_path)
    IN [csv_path |-> csv_path,
        metadata_path |-> PosixPath(root, meta_file.dir, meta_file.name),
        title |-> Get(meta, "title", JStr(HumanTitle(csv_name))),
        description |-> Get(meta, "description", JStr(<<>>)),
        source |-> SourceOf(meta),
        tags |-> Get(meta, "tags", JList(<<>>)),
        license |-> Get(meta, "license", UnknownLicense),
        created_at |-> Get(meta, "created_at", JNull),
        thematic_name |-> comps[1],
        year_month |-> comps[2],
        filename |-> comps[3],
        has_metadata |-> TRUE,
        freshness_score |-> None,
        freshness_status |-> None,
        freshness_indicator |-> None,
        data_as_of |-> None,
        source_reliability |-> None,
        days_since_check |-> None,
        warning |-> None]

FallbackEntry(root, csv_file) ==
    LET csv_path == PosixPath(root, csv_file.dir, csv_file.name)
        comps == _extract_path_components(csv_path)
        title == HumanTitle(csv_file.name)
    IN [csv_path |-> csv_path,
        metadata_path |-> None,
        title |-> JStr(title),
        description |-> JStr(<<"D", "a", "t", "a", "s", "e", "t", ":", " ">> \o title),
        source |-> SetItem(UnknownSource, "import_type", CsvImportType),
        tags |-> IF comps[1] # None /\ comps[1] # <<>>
                 THEN JList(<<JStr(comps[1])>>)
                 ELSE JList(<<>>),
        license |-> UnknownLicense,
        created_at |-> JNull,
        thematic_name |-> comps[1],
        year_month |-> comps[2],
        filename |-> comps[3],
        has_metadata |-> FALSE,
        freshness_score |-> None,
        freshness_status |-> None,
        freshness_indicator |-> None,
        data_as_of |-> None,
        source_reliability |-> None,
        days_since_check |-> None,
        warning |-> None]

-----------------------------------------------------------------------------
(* Catalog Assembler.                                                      *)

\* sorted(datasets, key=lambda x: x["csv_path"]): a stable sort, so entries
\* with equal keys keep the order they were appended in.
RECURSIVE InsertSorted(_, _)
InsertSorted(sorted, e) ==
    IF sorted = <<>> THEN <<e>>
    ELSE IF StrLess(e.csv_path, sorted[Len(sorted)].csv_path)
         THEN InsertSorted(SubSeq(sorted, 1, Len(sorted) - 1), e) \o <<sorted[Len(sorted)]>>
         ELSE sorted \o <<e>>

\* Mutant of SortedByCsvPath: the list is returned in discovery order.
SortedByCsvPath_Unsorted(list) == list

RECURSIVE SortedByCsvPath(_)
SortedByCsvPath(list) ==
    IF list = <<>> THEN <<>>
    ELSE InsertSorted(SortedByCsvPath(SubSeq(list, 1, Len(list) - 1)), list[Len(list)])

CatalogOf(list, now) ==
    [schema_version |-> "1.0",
     generated_at |-> now,
     total_datasets |-> Len(list),
     datasets |-> SortedByCsvPath(list)]

EntryEncodable(e) ==
    /\ Encodable(e.title) /\ Encodable(e.description) /\ Encodable(e.source)
    /\ Encodable(e.tags) /\ Encodable(e.license) /\ Encodable(e.created_at)

HeadOf(doc) == [schema_version |-> doc.schema_version,
                generated_at |-> doc.generated_at,
                total_datasets |-> doc.total_datasets]

\* The whole text of doc.
FileOf(doc) == [exists |-> TRUE, head |-> HeadOf(doc), body |-> doc.datasets, closed |-> TRUE]

\* open(output_path, "w") truncates the file; json.dump then writes the text
\* piece by piece and raises at the first entry it cannot encode; leaving
\* the with block flushes what was written before.
DumpTo(doc) ==
    LET bad == {i \in 1..Len(doc.datasets) : ~EntryEncodable(doc.datasets[i])}
        first == CHOOSE i \in bad : \A j \in bad : i <= j
    IN IF bad = {} THEN FileOf(doc)
       ELSE [exists |-> TRUE, head |-> HeadOf(doc),
             body |-> SubSeq(doc.datasets, 1, first - 1), closed |-> FALSE]

-----------------------------------------------------------------------------
(* The inputs the model draws from.                                        *)

\* Data roots: the default and another one a caller passes to rebuild_catalog.
DataDirs == {DefaultDataDir, <<<<"m", "y", "d", "a", "t", "a">>>>}

YM == <<"2", "0", "2", "6", "-", "0", "1">>
CHARTS == <<"c", "h", "a", "r", "t", "s">>

\* Directories below the root that hold files.
SubDirs == {<<>>, <<YM>>, <<YM, CHARTS>>}

\* File names: a stem followed by one or two of the two suffixes.
CsvNames == {<<"a">> \o CSV_SUFFIX,
             <<"b">> \o CSV_SUFFIX,
             <<"a">> \o CSV_SUFFIX \o CSV_SUFFIX}
MetaNames == {<<"a">> \o META_SUFFIX,
              <<"a">> \o CSV_SUFFIX \o META_SUFFIX,
              <<"a">> \o META_SUFFIX \o META_SUFFIX}

API == JStr(<<"a", "p", "i">>)

\* What json.load returns for the sidecars that parse.
SidecarValues ==
    { JDict(<<>>),
      JDict([k \in {"source"} |-> JDict([j \in {"import_type"} |-> JNull])]),
      JDict([k \in {"source", "title"} |->
                IF k = "source" THEN JStr(<<"x">>) ELSE JStr(<<"T">>)]),
      JDict([k \in {"source", "title"} |->
                IF k = "source" THEN JDict([j \in {"import_type"} |-> API])
                ELSE JStr(<<SURROGATE>>)]),
      JList(<<>>) }

SidecarFiles ==
    {File(d, n, "json", v) : d \in SubDirs, n \in MetaNames, v \in SidecarValues}
    \cup {File(d, n, k, JNull) : d \in SubDirs, n \in MetaNames,
                                 k \in {"badjson", "oserror", "undecodable"}}

CsvFiles == {File(d, n, "csv", JNull) : d \in SubDirs, n \in CsvNames}

SamePlace(f, g) == f.dir = g.dir /\ f.name = g.name

WellFormed(tree) ==
    /\ \A f, g \in tree : SamePlace(f, g) => f = g
    /\ Cardinality(tree \cap SidecarFiles) <= MaxSidecars

\* The directory trees of at most n of the given files, no two at the same
\* place.
RECURSIVE Trees(_, _)
Trees(files, n) ==
    IF n = 0 THEN {{}}
    ELSE LET smaller == Trees(files, n - 1)
         IN smaller \cup
            {t \in {u \cup {f} : u \in {v \in smaller : Cardinality(v) = n - 1},
                                 f \in files} : WellFormed(t)}

\* The sidecars of the trees a direct call of rebuild_catalog is run on: one
\* that is merged, one that is skipped with a warning, one that raises.
ScanSidecarFiles ==
    {f \in SidecarFiles :
        \/ f.kind = "badjson"
        \/ f.kind = "json" /\ f.value \in {JDict(<<>>), JList(<<>>)}}

-----------------------------------------------------------------------------
(* The program.                                                            *)

Init ==
    /\ entry_point \in {"main", "lib"}
    /\ data_dir \in DataDirs
    /\ entry_point = "main" => data_dir = DefaultDataDir
    /\ fs \in Trees(CsvFiles \cup SidecarFiles, MaxFiles)
    /\ pc = "scan"
    /\ run = 1
    /\ out = NoFile
    /\ meta_iter = RGlob(data_dir, fs, out, META_SUFFIX)
    /\ csv_iter = RGlob(data_dir, fs, out, CSV_SUFFIX)
    /\ datasets = <<>>
    /\ catalog = NoCatalog
    /\ stderr = {}
    /\ exit_status = <<>>
    /\ prev_catalog = NoCatalog
    /\ prev_out = NoFile
    /\ arg = <<>>
    /\ ret = <<>>

\* An exception leaves rebuild_catalog; __main__ reports it and exits 1.
Raise ==
    /\ pc' = "failed"
    /\ exit_status' = IF entry_point = "main" THEN <<1>> ELSE exit_status

\* One iteration of the metadata pass, for the sidecar rglob yields next.
MetaStep ==
    /\ pc = "scan"
    /\ \E meta_file \in meta_iter :
        /\ CanYield(meta_iter, meta_file)
        /\ meta_iter' = meta_iter \ {meta_file}
        /\ IF ~SiblingExists(data_dir, fs, out, meta_file, CsvNameOf(meta_file.name))
           THEN UNCHANGED <<pc, datasets, stderr, exit_status>>
           ELSE IF meta_file.kind \in {"badjson", "oserror"}
           THEN /\ stderr' = stderr \cup {PosixPath(data_dir, meta_file.dir, meta_file.name)}
                /\ UNCHANGED <<pc, datasets, exit_status>>
           ELSE IF meta_file.kind # "json" \/ meta_file.value.t # "dict"
           THEN /\ Raise
                /\ UNCHANGED <<datasets, stderr>>
           ELSE /\ datasets' = Append(datasets, MetadataEntry(data_dir, meta_file, meta_file.value))
                /\ UNCHANGED <<pc, stderr, exit_status>>
    /\ UNCHANGED <<data_dir, entry_point, fs, run, csv_iter, catalog, out,
                   prev_catalog, prev_out, arg, ret>>

\* One iteration of the fallback pass, which starts when the metadata pass
\* has run out of sidecars.
CsvStep ==
    /\ pc = "scan"
    /\ meta_iter = {}
    /\ \E csv_file \in csv_iter :
        /\ CanYield(csv_iter, csv_file)
        /\ csv_iter' = csv_iter \ {csv_file}
        /\ IF SiblingExists(data_dir, fs, out, csv_file, MetaNameOf(csv_file.name))
           THEN UNCHANGED datasets
           ELSE datasets' = Append(datasets, FallbackEntry(data_dir, csv_file))
    /\ UNCHANGED <<data_dir, entry_point, fs, pc, run, meta_iter, catalog, out,
                   stderr, exit_status, prev_catalog, prev_out, arg, ret>>

\* The return of rebuild_catalog.
Assemble ==
    /\ pc = "scan"
    /\ meta_iter = {}
    /\ csv_iter = {}
    /\ catalog' = CatalogOf(datasets, run)
    /\ pc' = IF entry_point = "main" THEN "write" ELSE "done"
    /\ UNCHANGED <<data_dir, entry_point, fs, run, meta_iter, csv_iter, datasets,
                   out, stderr, exit_status, prev_catalog, prev_out, arg, ret>>

\* __main__ after the call: mkdir, open for writing, json.dump, the summary.
WriteOutput ==
    /\ pc = "write"
    /\ out' = DumpTo(catalog)
    /\ IF out'.closed
       THEN pc' = "done" /\ exit_status' = <<0>>
       ELSE Raise
    /\ UNCHANGED <<data_dir, entry_point, fs, run, meta_iter, csv_iter, datasets,
                   catalog, stderr, prev_catalog, prev_out, arg, ret>>

\* The operation is invoked again over the same inputs.
Rerun ==
    /\ pc \in {"done", "failed"}
    /\ run < MaxRuns
    /\ run' = run + 1
    /\ pc' = "scan"
    /\ meta_iter' = RGlob(data_dir, fs, out, META_SUFFIX)
    /\ csv_iter' = RGlob(data_dir, fs, out, CSV_SUFFIX)
    /\ datasets' = <<>>
    /\ catalog' = NoCatalog
    /\ stderr' = {}
    /\ exit_status' = <<>>
    /\ prev_catalog' = catalog
    /\ prev_out' = out
    /\ UNCHANGED <<data_dir, entry_point, fs, out, arg, ret>>

Next == MetaStep \/ CsvStep \/ Assemble \/ WriteOutput \/ Rerun

Spec == Init /\ [][Next]_vars

\* One direct call of rebuild_catalog(data_dir).
InitScan ==
    /\ entry_point = "lib"
    /\ data_dir \in DataDirs
    /\ fs \in Trees(CsvFiles \cup ScanSidecarFiles, MaxFiles)
    /\ pc = "scan"
    /\ run = 1
    /\ out = NoFile
    /\ meta_iter = RGlob(data_dir, fs, out, META_SUFFIX)
    /\ csv_iter = RGlob(data_dir, fs, out, CSV_SUFFIX)
    /\ datasets = <<>>
    /\ catalog = NoCatalog
    /\ stderr = {}
    /\ exit_status = <<>>
    /\ prev_catalog = NoCatalog
    /\ prev_out = NoFile
    /\ arg = <<>>
    /\ ret = <<>>

NextScan == MetaStep \/ CsvStep \/ Assemble

SpecScan == InitScan /\ [][NextScan]_vars

-----------------------------------------------------------------------------
(* A direct call of the path classifier.                                   *)

FOO_CSV == <<"f", "o", "o">> \o CSV_SUFFIX
BAR_CSV == <<"b", "a", "r">> \o CSV_SUFFIX

\* Segments a POSIX path may hold; a directory name may end in a newline.
PathSegments == {DATA, YM, YM \o <<"\n">>, CHARTS, FOO_CSV, BAR_CSV}

RECURSIVE SegmentLists(_)
SegmentLists(n) ==
    IF n = 0 THEN {}
    ELSE LET shorter == SegmentLists(n - 1)
         IN shorter \cup {<<seg>> : seg \in PathSegments}
                    \cup {Append(p, seg) : p \in shorter, seg \in PathSegments}

InitPath ==
    /\ arg \in {Join(p) : p \in SegmentLists(MaxSegments)}
    /\ ret = <<>>
    /\ pc = "call"
    /\ entry_point = "lib"
    /\ data_dir = DefaultDataDir
    /\ fs = {}
    /\ run = 1
    /\ meta_iter = {}
    /\ csv_iter = {}
    /\ datasets = <<>>
    /\ catalog = NoCatalog
    /\ out = NoFile
    /\ stderr = {}
    /\ exit_status = <<>>
    /\ prev_catalog = NoCatalog
    /\ prev_out = NoFile

Classify ==
    /\ pc = "call"
    /\ ret' = _extract_path_components(arg)
    /\ pc' = "returned"
    /\ UNCHANGED <<data_dir, entry_point, fs, run, meta_iter, csv_iter, datasets,
                   catalog, out, stderr, exit_status, prev_catalog, prev_out, arg>>

NextPath == Classify

SpecPath == InitPath /\ [][NextPath]_vars

-----------------------------------------------------------------------------
(* Vocabulary of the properties.                                           *)

\* rebuild_catalog has returned a document in the running invocation.
Returned == catalog # NoCatalog

\* rebuild_catalog has ended, by returning or by raising.
Ended == pc \in {"write", "done", "failed"}

\* The naming convention of the pairing: foo.csv <-> foo.meta.json, the
\* suffix exchanged and the rest of the name kept.
StripSuffix(name, suffix) == SubSeq(name, 1, Len(name) - Len(suffix))

IsCsv(f) == EndsWith(f.name, CSV_SUFFIX)

IsSidecar(f) == EndsWith(f.name, META_SUFFIX)

Paired(csv, meta) ==
    /\ IsCsv(csv) /\ IsSidecar(meta)
    /\ csv.dir = meta.dir
    /\ StripSuffix(csv.name, CSV_SUFFIX) = StripSuffix(meta.name, META_SUFFIX)

PathOf(f) == PosixPath(data_dir, f.dir, f.name)

\* Positions of the catalog's entries for the CSV file csv.
EntriesFor(csv) ==
    {i \in 1..Len(catalog.datasets) : catalog.datasets[i].csv_path = PathOf(csv)}

\* Exactly four digits, a hyphen, two digits.
YearMonthShaped(str) ==
    /\ Len(str) = 7
    /\ \A i \in {1, 2, 3, 4, 6, 7} : str[i] \in Range(Digits)
    /\ str[5] = "-"

-----------------------------------------------------------------------------
(* The claims.                                                             *)

\* C1: the catalog rebuild_catalog returns never holds two entries with the
\* same csv_path.
C1_NoDuplicateCsvPath ==
    Returned =>
        \A i, j \in 1..Len(catalog.datasets) :
            i # j => catalog.datasets[i].csv_path # catalog.datasets[j].csv_path

\* C2: for every CSV file whose sidecar exists and parses, whatever JSON
\* value it parses to, the rebuild completes and the catalog holds exactly
\* one metadata-bearing entry for the CSV.
C2_Completeness ==
    Ended =>
        \A csv \in fs :
            (\E meta \in fs : Paired(csv, meta) /\ meta.kind = "json") =>
                /\ Returned
                /\ Cardinality({i \in EntriesFor(csv) :
                                    catalog.datasets[i].has_metadata}) = 1

\* C3: for every CSV file with no sidecar file present the catalog holds
\* exactly one fallback entry: has_metadata false and metadata_path None.
C3_FallbackCompleteness ==
    Returned =>
        \A csv \in fs :
            (IsCsv(csv) /\ ~\E meta \in fs : Paired(csv, meta)) =>
                Cardinality({i \in EntriesFor(csv) :
                                 /\ ~catalog.datasets[i].has_metadata
                                 /\ catalog.datasets[i].metadata_path = None}) = 1

\* C4: a sidecar that cannot be parsed or read, next to its CSV, gives no
\* entry for that CSV in either pass and a diagnostic, and the rebuild still
\* completes.
C4_MalformedSidecarSkipped ==
    Ended =>
        \A csv, meta \in fs :
            (Paired(csv, meta) /\ meta.kind \in {"badjson", "oserror", "undecodable"}) =>
                /\ Returned
                /\ EntriesFor(csv) = {}
                /\ PathOf(meta) \in stderr
                /\ catalog.total_datasets = Len(catalog.datasets)

\* C5: source.import_type is present and not null in every entry.
C5_ImportTypeNonNull ==
    Returned =>
        \A i \in 1..Len(catalog.datasets) :
            LET source == catalog.datasets[i].source
            IN /\ "import_type" \in DOMAIN source.d
               /\ source.d["import_type"].t # "null"

\* C6: datasets is sorted ascending by csv_path, and total_datasets is its
\* length.
C6_SortedAndCounted ==
    Returned =>
        /\ \A i \in 1..(Len(catalog.datasets) - 1) :
               ~StrLess(catalog.datasets[i + 1].csv_path, catalog.datasets[i].csv_path)
        /\ catalog.total_datasets = Len(catalog.datasets)

\* C6 witness: a catalog of several entries whose order is not the order the
\* passes found them in.
C6_Witness ==
    /\ Returned
    /\ Len(catalog.datasets) >= 2
    /\ catalog.datasets # datasets
    /\ \E i, j \in 1..Len(datasets) : i < j /\ StrLess(datasets[j].csv_path, datasets[i].csv_path)

\* C7: a second run over unchanged inputs, the first having written
\* data/catalog.json, returns the first run's catalog but for generated_at.
C7_Idempotent ==
    (entry_point = "main" /\ run > 1 /\ prev_out.closed /\ Returned) =>
        /\ catalog.datasets = prev_catalog.datasets
        /\ catalog.total_datasets = prev_catalog.total_datasets
        /\ catalog.schema_version = prev_catalog.schema_version

\* C8: when a standalone run has ended, by success or by failure,
\* data/catalog.json is what the run found there or the whole new catalog.
C8_NoPartialCatalog ==
    (entry_point = "main" /\ pc \in {"done", "failed"}) =>
        \/ out = prev_out
        \/ Returned /\ out = FileOf(catalog)

\* C9: no entry's thematic_name is year-month-shaped or the name of the
\* root directory.
C9_ThematicName ==
    Returned =>
        \A i \in 1..Len(catalog.datasets) :
            LET name == catalog.datasets[i].thematic_name
            IN name # None =>
                   /\ ~YearMonthShaped(name)
                   /\ name # data_dir[Len(data_dir)]

\* C10: _extract_path_components returns the last segment as filename, the
\* first segment of exactly four digits, a hyphen and two digits as
\* year_month (None without one), and the second-to-last segment as
\* thematic_name unless there is none, it has that shape or it is "data"
\* (then None).
C10_PathComponents ==
    pc = "returned" =>
        LET segs == Split(arg)
            shaped == {i \in 1..Len(segs) : YearMonthShaped(segs[i])}
            parent == segs[Len(segs) - 1]
        IN /\ ret[3] = segs[Len(segs)]
           /\ ret[2] = IF shaped = {} THEN None
                       ELSE segs[CHOOSE i \in shaped : \A j \in shaped : i <= j]
           /\ ret[1] = IF Len(segs) < 2 \/ YearMonthShaped(parent) \/ parent = DATA
                       THEN None
                       ELSE parent

====
